---- MODULE Spec2Model ----
(***************************************************************************)
(* A model of the ISPU data-quality scripts.                               *)
(*                                                                         *)
(*   src/ispu_named copy/data_report_script.py : a top-to-bottom script.   *)
(*       Its sections are the actions ReadCsv .. Cleanup; pc is the        *)
(*       section the interpreter is about to run, "error" after an         *)
(*       uncaught exception, "done" after the last statement.              *)
(*   src/script_eda.py : the schema helpers extract_column_schema,         *)
(*       find_internal_duplicate_columns and count_rows_per_dataset.       *)
(*                                                                         *)
(* A cell of a table is a record [kind, num, text]: kind "nan" is a        *)
(* missing value, "num" a number (in num), "str" a text (in text).         *)
(***************************************************************************)
EXTENDS Integers, Sequences, FiniteSets, TLC

VARIABLES
    pc,                 \* section of data_report_script.py about to run
    csv,                \* the delimited file: [cols, rows] of raw text fields
    df,                 \* the loaded table: [cols, dtype, rows]
    loaded,             \* the table as it was right after read_csv (history)
    report,             \* report_df: per column null_count, null_pct, unique_values
    special,            \* the domain checks that printed their section
    duplicate_ids,      \* df["id"].duplicated().sum()
    null_ids,           \* df["id"].isna().sum()
    sample_ids,         \* rows printed under "Sample duplicated IDs"
    numeric_cols,       \* columns described by the numeric sanity check
    max_mismatch,       \* rows (indices) of max_mismatch
    critical_mismatch,  \* rows (indices) of critical_mismatch
    printed,            \* the mismatch samples that were printed
    error,              \* the uncaught exception, "" when none
    dfs,                \* script_eda: dataset name -> table
    schema_dict,        \* script_eda: result of extract_column_schema
    duplicates,         \* script_eda: result of find_internal_duplicate_columns
    summary,            \* script_eda: result of count_rows_per_dataset
    returned            \* script_eda: the helpers that have returned

scriptVars == <<pc, csv, df, loaded, report, special, duplicate_ids, null_ids,
                sample_ids, numeric_cols, max_mismatch, critical_mismatch,
                printed, error>>
edaVars == <<dfs, schema_dict, duplicates, summary, returned>>
vars == <<scriptVars, edaVars>>

(***************************************************************************)
(* Bounds of the model.                                                    *)
(***************************************************************************)
MaxRows == 3        \* rows of a table in the many-row input families
MaxCols == 3        \* length of a dataset's column list (script_eda)

(***************************************************************************)
(* Cells.                                                                  *)
(***************************************************************************)
NaN == [kind |-> "nan", num |-> 0, text |-> ""]
Num(n) == [kind |-> "num", num |-> n, text |-> ""]
Str(s) == [kind |-> "str", num |-> 0, text |-> s]

isna(c) == c.kind = "nan"
notna(c) == ~isna(c)

\* Python's == on two cells: NaN equals nothing (itself included), a number
\* never equals a text.
CellEq(a, b) ==
    /\ a.kind = b.kind
    /\ a.kind # "nan"
    /\ a.num = b.num
    /\ a.text = b.text

(***************************************************************************)
(* CONFIG and read_csv.                                                    *)
(***************************************************************************)
NA_VALUES == {"---", "--", "", " ", "NA", "N/A"}

\* The text fields that parse as a number, with their values.
NumText ==
    ("-1" :> -1) @@ ("0" :> 0) @@ ("1" :> 1) @@ ("2" :> 2) @@ ("3" :> 3)

IsNumText(s) == s \in DOMAIN NumText

Range(f) == {f[x] : x \in DOMAIN f}

\* read_csv's type inference: a column is numeric when it has rows and each
\* of its fields is a missing-value marker or parses as a number; otherwise
\* it is an object column whose fields stay text.
InferNumeric(rows, c) ==
    /\ Len(rows) > 0
    /\ \A i \in 1..Len(rows) : rows[i][c] \in NA_VALUES \/ IsNumText(rows[i][c])

ParseField(s, numeric) ==
    IF s \in NA_VALUES THEN NaN
    ELSE IF numeric THEN Num(NumText[s])
    ELSE Str(s)

read_csv(file) ==
    [cols  |-> file.cols,
     dtype |-> [c \in file.cols |->
                  IF InferNumeric(file.rows, c) THEN "number" ELSE "object"],
     rows  |-> [i \in 1..Len(file.rows) |->
                  [c \in file.cols |->
                     ParseField(file.rows[i][c], InferNumeric(file.rows, c))]]]

Column(t, c) == [i \in 1..Len(t.rows) |-> t.rows[i][c]]

(***************************************************************************)
(* PER-COLUMN REPORT.                                                      *)
(***************************************************************************)
\* A null percentage in hundredths of a percent, or NaN.
PctNaN == [nan |-> TRUE, hundredths |-> 0]
Pct(h) == [nan |-> FALSE, hundredths |-> h]

\* round(null_count / total * 100, 2), ties to even. null_count is a numpy
\* integer, so the division by a zero total gives NaN (with a warning) and
\* raises nothing.
null_pct(null_count, total) ==
    IF total = 0 THEN PctNaN
    ELSE LET q == (null_count * 10000) \div total
             r == (null_count * 10000) % total
         IN  IF 2 * r > total \/ (2 * r = total /\ q % 2 = 1)
             THEN Pct(q + 1) ELSE Pct(q)

NullCount(t, c) == Cardinality({i \in 1..Len(t.rows) : isna(t.rows[i][c])})

nunique(t, c) ==
    Cardinality({t.rows[i][c] : i \in {j \in 1..Len(t.rows) : notna(t.rows[j][c])}})

PerColumnReport ==
    /\ pc = "report"
    /\ report' = [c \in df.cols |->
                    [null_count    |-> NullCount(df, c),
                     null_pct      |-> null_pct(NullCount(df, c), Len(df.rows)),
                     unique_values |-> nunique(df, c)]]
    /\ pc' = "special"
    /\ UNCHANGED <<edaVars, csv, df, loaded, special, duplicate_ids, null_ids, sample_ids,
                   numeric_cols, max_mismatch, critical_mismatch, printed, error>>

(***************************************************************************)
(* SPECIAL CHECKS: each one runs only when its column is present.          *)
(***************************************************************************)
SpecialColumns == {"tanggal", "period_data", "categori", "critical", "stasiun"}

\* Variant: the checks read their columns without testing for them.
SpecialChecksUnguarded ==
    /\ pc = "special"
    /\ special' = {c \in SpecialColumns : c \in df.cols}
    /\ IF SpecialColumns \subseteq df.cols
       THEN pc' = "id" /\ error' = error
       ELSE pc' = "error" /\ error' = "KeyError"
    /\ UNCHANGED <<edaVars, csv, df, loaded, report, duplicate_ids, null_ids,
                   sample_ids, numeric_cols, max_mismatch, critical_mismatch,
                   printed>>

SpecialChecks ==
    /\ pc = "special"
    /\ special' = {c \in SpecialColumns : c \in df.cols}
    /\ pc' = "id"
    /\ UNCHANGED <<edaVars, csv, df, loaded, report, duplicate_ids, null_ids, sample_ids,
                   numeric_cols, max_mismatch, critical_mismatch, printed, error>>

(***************************************************************************)
(* ID VALIDATION.                                                          *)
(***************************************************************************)
\* pandas' duplicated() compares values with missing values equal to each
\* other.
SameValue(a, b) == a = b

\* Series.duplicated(): keep="first" marks every occurrence but the first.
DuplicatedKeepFirst(col) ==
    {i \in DOMAIN col : \E j \in DOMAIN col : j < i /\ SameValue(col[j], col[i])}

\* Series.duplicated(keep=False) marks every occurrence of a repeated value.
DuplicatedKeepFalse(col) ==
    {i \in DOMAIN col : \E j \in DOMAIN col : j # i /\ SameValue(col[j], col[i])}

\* Variant: the count takes every occurrence, as duplicated(keep=False).
DuplicateIdCountInclusive(col) == Cardinality(DuplicatedKeepFalse(col))

\* The reported "Duplicate ID count".
DuplicateIdCount(col) == Cardinality(DuplicatedKeepFirst(col))

\* head(): the first five of a set of row indices.
HeadRows(S) == {i \in S : Cardinality({j \in S : j < i}) < 5}

IdValidation ==
    /\ pc = "id"
    /\ IF "id" \in df.cols
       THEN /\ duplicate_ids' = DuplicateIdCount(Column(df, "id"))
            /\ null_ids' = NullCount(df, "id")
            /\ sample_ids' =
                 IF DuplicateIdCount(Column(df, "id")) > 0
                 THEN HeadRows(DuplicatedKeepFalse(Column(df, "id")))
                 ELSE {}
       ELSE UNCHANGED <<duplicate_ids, null_ids, sample_ids>>
    /\ pc' = "numeric"
    /\ UNCHANGED <<edaVars, csv, df, loaded, report, special, numeric_cols, max_mismatch,
                   critical_mismatch, printed, error>>

(***************************************************************************)
(* NUMERIC SANITY CHECK.                                                   *)
(***************************************************************************)
NumericSanity ==
    /\ pc = "numeric"
    /\ numeric_cols' = {c \in df.cols : df.dtype[c] = "number"}
    /\ pc' = "coerce"
    /\ UNCHANGED <<edaVars, csv, df, loaded, report, special, duplicate_ids, null_ids,
                   sample_ids, max_mismatch, critical_mismatch, printed, error>>

(***************************************************************************)
(* MAX & PARAMETER PENCEMAR KRITIS VALIDATION.                             *)
(***************************************************************************)
\* polutan_map, in its declaration order (a dict iterates in that order).
PolutanOrder == <<"pm_sepuluh", "pm_duakomalima", "sulfur_dioksida",
                  "karbon_monoksida", "ozon", "nitrogen_dioksida">>

polutan_map ==
    [c \in Range(PolutanOrder) |->
        CASE c = "pm_sepuluh"        -> "PM10"
          [] c = "pm_duakomalima"    -> "PM25"
          [] c = "sulfur_dioksida"   -> "SO2"
          [] c = "karbon_monoksida"  -> "CO"
          [] c = "ozon"              -> "O3"
          [] c = "nitrogen_dioksida" -> "NO2"]

Polutan == Range(PolutanOrder)

\* pd.to_numeric(..., errors="coerce") on one cell.
to_numeric(c) ==
    CASE c.kind = "num" -> c
      [] c.kind = "nan" -> NaN
      [] c.kind = "str" -> IF IsNumText(c.text) THEN Num(NumText[c.text]) ELSE NaN

\* The position in polutan_map of the first column missing from the table,
\* Len + 1 when none is missing.
FirstMissing(cols) ==
    LET miss == {k \in 1..Len(PolutanOrder) : PolutanOrder[k] \notin cols}
    IN  IF miss = {} THEN Len(PolutanOrder) + 1
        ELSE CHOOSE k \in miss : \A m \in miss : k <= m

\* for col in polutan_map: df[col] = pd.to_numeric(df[col], errors="coerce")
\* The loop stops with a KeyError at the first column the table lacks; the
\* columns before it are already replaced.
CoercePolutan ==
    /\ pc = "coerce"
    /\ LET k == FirstMissing(df.cols)
           done == {PolutanOrder[m] : m \in 1..(k - 1)}
       IN  /\ df' = [df EXCEPT
                       !.dtype = [c \in df.cols |->
                                    IF c \in done THEN "number" ELSE df.dtype[c]],
                       !.rows = [i \in 1..Len(df.rows) |->
                                   [c \in df.cols |->
                                      IF c \in done THEN to_numeric(df.rows[i][c])
                                      ELSE df.rows[i][c]]]]
           /\ IF k <= Len(PolutanOrder)
              THEN pc' = "error" /\ error' = "KeyError"
              ELSE pc' = "recalc" /\ error' = error
    /\ UNCHANGED <<edaVars, csv, loaded, report, special, duplicate_ids, null_ids,
                   sample_ids, numeric_cols, max_mismatch, critical_mismatch,
                   printed>>

\* Variant: missing values are filled with zero before the maximum.
RowMaxNullAsZero(row) ==
    LET vals == {IF row[c].kind = "num" THEN row[c].num ELSE 0 : c \in Polutan}
    IN  Num(CHOOSE m \in vals : \A v \in vals : v <= m)

\* DataFrame.max(axis=1) over the six columns of one row: missing values
\* are skipped, and a row of missing values gives a missing value.
RowMax(row) ==
    LET vals == {row[c].num : c \in {d \in Polutan : row[d].kind = "num"}}
    IN  IF vals = {} THEN NaN
        ELSE Num(CHOOSE m \in vals : \A v \in vals : v <= m)

\* df["_recalc_max"] = df[list(polutan_map.keys())].max(axis=1)
RecalcMax ==
    /\ pc = "recalc"
    /\ df' = [cols  |-> df.cols \cup {"_recalc_max"},
              dtype |-> [c \in df.cols \cup {"_recalc_max"} |->
                           IF c = "_recalc_max" THEN "number" ELSE df.dtype[c]],
              rows  |-> [i \in 1..Len(df.rows) |->
                           [c \in df.cols \cup {"_recalc_max"} |->
                              IF c = "_recalc_max" THEN RowMax(df.rows[i])
                              ELSE df.rows[i][c]]]]
    /\ pc' = "max_validation"
    /\ UNCHANGED <<edaVars, csv, loaded, report, special, duplicate_ids, null_ids,
                   sample_ids, numeric_cols, max_mismatch, critical_mismatch,
                   printed, error>>

\* Variant: the recomputed maximum is not tested for a missing value.
MaxMismatchRowUnguarded(row) ==
    /\ notna(row["max"])
    /\ ~CellEq(row["max"], row["_recalc_max"])

\* (df["max"].notna()) & (df["_recalc_max"].notna()) & (df["max"] != df["_recalc_max"])
MaxMismatchRow(row) ==
    /\ notna(row["max"])
    /\ notna(row["_recalc_max"])
    /\ ~CellEq(row["max"], row["_recalc_max"])

\* VALIDASI NILAI MAX: df["max"] raises a KeyError when the column is
\* absent; the sample is printed only when a row mismatches, and selects
\* tanggal and stasiun.
MaxValidation ==
    /\ pc = "max_validation"
    /\ IF "max" \notin df.cols
       THEN /\ pc' = "error" /\ error' = "KeyError"
            /\ UNCHANGED <<max_mismatch, printed>>
       ELSE LET mm == {i \in 1..Len(df.rows) : MaxMismatchRow(df.rows[i])}
            IN  /\ max_mismatch' = mm
                /\ IF mm = {}
                   THEN pc' = "critical_validation" /\ UNCHANGED <<printed, error>>
                   ELSE IF {"tanggal", "stasiun"} \subseteq df.cols
                   THEN /\ pc' = "critical_validation"
                        /\ printed' = printed \cup {"max"}
                        /\ error' = error
                   ELSE pc' = "error" /\ error' = "KeyError" /\ printed' = printed
    /\ UNCHANGED <<edaVars, csv, df, loaded, report, special, duplicate_ids, null_ids,
                   sample_ids, numeric_cols, critical_mismatch>>

\* check_critical(row), scanning polutan_map from position k: "True",
\* "False", or "KeyError" when the label column is read and is absent.
RECURSIVE CheckCriticalFrom(_, _, _)
CheckCriticalFrom(row, cols, k) ==
    IF k > Len(PolutanOrder) THEN "False"
    ELSE IF CellEq(row[PolutanOrder[k]], row["max"])
    THEN IF "parameter_pencemar_kritis" \notin cols THEN "KeyError"
         ELSE IF CellEq(row["parameter_pencemar_kritis"],
                        Str(polutan_map[PolutanOrder[k]]))
         THEN "True" ELSE "False"
    ELSE CheckCriticalFrom(row, cols, k + 1)

\* Variant: the scan runs from the last pollutant column to the first.
RECURSIVE CheckCriticalDown(_, _, _)
CheckCriticalDown(row, cols, k) ==
    IF k < 1 THEN "False"
    ELSE IF CellEq(row[PolutanOrder[k]], row["max"])
    THEN IF "parameter_pencemar_kritis" \notin cols THEN "KeyError"
         ELSE IF CellEq(row["parameter_pencemar_kritis"],
                        Str(polutan_map[PolutanOrder[k]]))
         THEN "True" ELSE "False"
    ELSE CheckCriticalDown(row, cols, k - 1)

check_critical_last(row, cols) ==
    IF isna(row["max"]) THEN "True"
    ELSE CheckCriticalDown(row, cols, Len(PolutanOrder))

\* Variant: rows without max are scanned like the others.
check_critical_noskip(row, cols) == CheckCriticalFrom(row, cols, 1)

check_critical(row, cols) ==
    IF isna(row["max"]) THEN "True"   \* abaikan baris tanpa max
    ELSE CheckCriticalFrom(row, cols, 1)

\* VALIDASI PARAMETER KRITIS: critical_mismatch = df[~df.apply(check_critical,
\* axis=1)]; the sample selects tanggal, stasiun, max and the label column.
CriticalValidation ==
    /\ pc = "critical_validation"
    /\ LET res == [i \in 1..Len(df.rows) |-> check_critical(df.rows[i], df.cols)]
           cm == {i \in 1..Len(df.rows) : res[i] = "False"}
       IN  IF \E i \in 1..Len(df.rows) : res[i] = "KeyError"
           THEN /\ pc' = "error" /\ error' = "KeyError"
                /\ UNCHANGED <<critical_mismatch, printed>>
           ELSE /\ critical_mismatch' = cm
                /\ IF cm = {}
                   THEN pc' = "cleanup" /\ UNCHANGED <<printed, error>>
                   ELSE IF {"tanggal", "stasiun", "parameter_pencemar_kritis"}
                              \subseteq df.cols
                   THEN /\ pc' = "cleanup"
                        /\ printed' = printed \cup {"critical"}
                        /\ error' = error
                   ELSE pc' = "error" /\ error' = "KeyError" /\ printed' = printed
    /\ UNCHANGED <<edaVars, csv, df, loaded, report, special, duplicate_ids, null_ids,
                   sample_ids, numeric_cols, max_mismatch>>

\* Variant: the helper column is left in the table.
drop_nothing(t, c) == t

\* cleanup kolom bantu: df.drop(columns=["_recalc_max"], inplace=True)
drop(t, c) ==
    [cols  |-> t.cols \ {c},
     dtype |-> [d \in t.cols \ {c} |-> t.dtype[d]],
     rows  |-> [i \in 1..Len(t.rows) |-> [d \in t.cols \ {c} |-> t.rows[i][d]]]]

Cleanup ==
    /\ pc = "cleanup"
    /\ df' = drop(df, "_recalc_max")
    /\ pc' = "done"
    /\ UNCHANGED <<edaVars, csv, loaded, report, special, duplicate_ids, null_ids,
                   sample_ids, numeric_cols, max_mismatch, critical_mismatch,
                   printed, error>>

\* LOAD DATA: df = pd.read_csv(CSV_PATH, na_values=NA_VALUES)
ReadCsv ==
    /\ pc = "load"
    /\ df' = read_csv(csv)
    /\ loaded' = read_csv(csv)
    /\ pc' = "report"
    /\ UNCHANGED <<edaVars, csv, report, special, duplicate_ids, null_ids, sample_ids,
                   numeric_cols, max_mismatch, critical_mismatch, printed, error>>

ScriptNext ==
    \/ ReadCsv
    \/ PerColumnReport
    \/ SpecialChecks
    \/ IdValidation
    \/ NumericSanity
    \/ CoercePolutan
    \/ RecalcMax
    \/ MaxValidation
    \/ CriticalValidation
    \/ Cleanup

(***************************************************************************)
(* script_eda.py: the schema helpers. A DataFrame is seen through          *)
(* list(df.columns) and len(df).                                           *)
(***************************************************************************)
extract_column_schema(d) ==
    [name \in DOMAIN d |->
        [columns |-> d[name].columns, n_columns |-> Len(d[name].columns)]]

\* cols.count(c)
count(cols, c) == Cardinality({k \in 1..Len(cols) : cols[k] = c})

\* Variant: the comparison admits a single occurrence.
DupNamesAtLeastOnce(cols) == {c \in Range(cols) : count(cols, c) >= 1}

\* The names kept by  [c for c in set(cols) if cols.count(c) > 1]
DupNames(cols) == {c \in Range(cols) : count(cols, c) > 1}

\* The lists a comprehension over a set can give: each element once, in the
\* set's iteration order, which the language leaves open.
ListsOf(S) ==
    {l \in [1..Cardinality(S) -> S] : \A a, b \in DOMAIN l : l[a] = l[b] => a = b}

ExtractColumnSchema ==
    /\ "extract_column_schema" \notin returned
    /\ schema_dict' = extract_column_schema(dfs)
    /\ returned' = returned \cup {"extract_column_schema"}
    /\ UNCHANGED <<scriptVars, dfs, duplicates, summary>>

FindInternalDuplicateColumns ==
    /\ "extract_column_schema" \in returned
    /\ "find_internal_duplicate_columns" \notin returned
    /\ LET hit == {name \in DOMAIN schema_dict :
                      DupNames(schema_dict[name].columns) # {}}
       IN  \E dup \in [hit -> UNION {ListsOf(DupNames(schema_dict[name].columns)) :
                                       name \in hit}] :
              /\ \A name \in hit :
                    dup[name] \in ListsOf(DupNames(schema_dict[name].columns))
              /\ duplicates' = dup
    /\ returned' = returned \cup {"find_internal_duplicate_columns"}
    /\ UNCHANGED <<scriptVars, dfs, schema_dict, summary>>

RECURSIVE SumRows(_, _)
SumRows(d, names) ==
    IF names = {} THEN 0
    ELSE LET name == CHOOSE n \in names : TRUE
         IN  d[name].n_rows + SumRows(d, names \ {name})

\* Variant: the total is stored first, so a dataset's own entry wins.
count_rows_total_first(d) ==
    [name \in DOMAIN d \cup {"__total__"} |->
        IF name \in DOMAIN d THEN d[name].n_rows ELSE SumRows(d, DOMAIN d)]

\* summary[name] = n_rows for each dataset, then summary["__total__"] =
\* total_rows: the last assignment wins.
count_rows_per_dataset(d) ==
    [name \in DOMAIN d \cup {"__total__"} |->
        IF name = "__total__" THEN SumRows(d, DOMAIN d) ELSE d[name].n_rows]

CountRowsPerDataset ==
    /\ "count_rows_per_dataset" \notin returned
    /\ summary' = count_rows_per_dataset(dfs)
    /\ returned' = returned \cup {"count_rows_per_dataset"}
    /\ UNCHANGED <<scriptVars, dfs, schema_dict, duplicates>>

EdaNext ==
    \/ ExtractColumnSchema
    \/ FindInternalDuplicateColumns
    \/ CountRowsPerDataset

(***************************************************************************)
(* Inputs: the files the script is run on.                                 *)
(***************************************************************************)
AllColumns ==
    SpecialColumns \cup {"id"} \cup Polutan \cup {"max", "parameter_pencemar_kritis"}

Labels == Range(polutan_map)

\* A row of plain fields; the input families vary some of its fields.
DefaultRow ==
    [c \in AllColumns |->
        CASE c = "tanggal"     -> "2021-01-01"
          [] c = "period_data" -> "202101"
          [] c = "categori"    -> "BAIK"
          [] c = "critical"    -> "PM25"
          [] c = "stasiun"     -> "DKI1"
          [] c = "id"          -> "1"
          [] c = "max"         -> "2"
          [] c = "parameter_pencemar_kritis" -> "PM25"
          [] OTHER             -> "1"]

\* DefaultRow with the fields of f (a function on some columns) put in.
RowWith(f) == [c \in AllColumns |-> IF c \in DOMAIN f THEN f[c] ELSE DefaultRow[c]]

File(cols, rows) ==
    [cols |-> cols, rows |-> [i \in 1..Len(rows) |-> [c \in cols |-> rows[i][c]]]]

NoTable == [cols |-> {}, dtype |-> <<>>, rows |-> <<>>]

ScriptStart ==
    /\ pc = "load"
    /\ df = NoTable /\ loaded = NoTable
    /\ report = <<>> /\ special = {}
    /\ duplicate_ids = 0 /\ null_ids = 0 /\ sample_ids = {}
    /\ numeric_cols = {}
    /\ max_mismatch = {} /\ critical_mismatch = {} /\ printed = {}
    /\ error = ""
    /\ dfs = <<>> /\ schema_dict = <<>> /\ duplicates = <<>> /\ summary = <<>>
    /\ returned = {}

\* --- the cross-column validator's inputs: pollutants, max and label vary.
CrossValues == {"---", "1", "2"}
CrossMax == {"---", "x", "1", "2", "3"}
CrossLabels == {"---"} \cup Labels

\* One row, every pollutant field free.
CrossWide ==
    {RowWith(p @@ ("max" :> m) @@ ("parameter_pencemar_kritis" :> l)) :
        p \in [Polutan -> CrossValues], m \in CrossMax, l \in CrossLabels}

\* Rows of the many-row tables: PM10 below or level with PM2.5, the other
\* pollutants missing.
CrossNarrow ==
    {RowWith(("pm_sepuluh" :> a) @@ ("pm_duakomalima" :> "2") @@ ("max" :> m)
             @@ ("parameter_pencemar_kritis" :> l)
             @@ [c \in Polutan |-> "---"]) :
        a \in {"1", "2"}, m \in {"---", "1", "2"}, l \in {"PM10", "PM25"}}

InitCross ==
    /\ ScriptStart
    /\ \/ \E r \in CrossWide : csv = File(AllColumns, <<r>>)
       \/ \E n \in 2..MaxRows : \E rs \in [1..n -> CrossNarrow] :
             csv = File(AllColumns, rs)

\* --- the coercion's inputs: pollutant fields that are numbers, negative
\* numbers, missing-value markers or other text.
CoerceValues == {"---", "x", "-1", "1", "2"}

CoerceWide == {RowWith(p) : p \in [Polutan -> CoerceValues]}

CoerceNarrow ==
    {RowWith(("pm_sepuluh" :> a) @@ ("nitrogen_dioksida" :> b)) :
        a \in {"---", "x", "2"}, b \in {"---", "x", "2"}}

InitCoerce ==
    /\ ScriptStart
    /\ \/ \E r \in CoerceWide : csv = File(AllColumns, <<r>>)
       \/ \E n \in 2..MaxRows : \E rs \in [1..n -> CoerceNarrow] :
             csv = File(AllColumns, rs)

\* --- the general run: ids, missing values, absent columns.
MaxIdRows == 4      \* rows of a table whose ids vary

IdRows == {RowWith("id" :> i) : i \in {"---", "1", "2", "3"}}

NullRows ==
    {RowWith(("categori" :> a) @@ ("stasiun" :> b)) :
        a \in {"---", "BAIK"}, b \in {"---", "DKI1"}}

\* Rows for the tables with absent columns: a consistent row, a row whose
\* max no pollutant holds, a row with a wrong label, a row without max.
PresenceRows ==
    {RowWith(("pm_duakomalima" :> "2") @@ ("max" :> m)
             @@ ("parameter_pencemar_kritis" :> l)) :
        m \in {"---", "2", "3"}, l \in {"PM10", "PM25"}}

Init ==
    /\ ScriptStart
    /\ \/ \E n \in 0..MaxIdRows : \E rs \in [1..n -> IdRows] :
             csv = File(AllColumns, rs)
       \/ \E n \in 0..MaxRows : \E rs \in [1..n -> NullRows] :
             csv = File(AllColumns, rs)
       \/ \E cols \in SUBSET AllColumns : \E r \in PresenceRows :
             csv = File(cols, <<r>>)
       \/ \E cols \in SUBSET AllColumns : csv = File(cols, <<>>)

\* --- script_eda: datasets by name, with their column lists and lengths.
DatasetNames == {"ispu", "__total__"}
ColumnNames == {"tanggal", "max"}

Tables ==
    UNION {[columns : [1..n -> ColumnNames], n_rows : 0..MaxRows] : n \in 0..MaxCols}

InitEda ==
    /\ pc = "idle" /\ csv = File({}, <<>>)
    /\ df = NoTable /\ loaded = NoTable
    /\ report = <<>> /\ special = {}
    /\ duplicate_ids = 0 /\ null_ids = 0 /\ sample_ids = {}
    /\ numeric_cols = {}
    /\ max_mismatch = {} /\ critical_mismatch = {} /\ printed = {}
    /\ error = ""
    /\ \E names \in SUBSET DatasetNames : dfs \in [names -> Tables]
    /\ schema_dict = <<>> /\ duplicates = <<>> /\ summary = <<>>
    /\ returned = {}

(***************************************************************************)
(* Specifications.                                                         *)
(***************************************************************************)
Next == ScriptNext

Spec == Init /\ [][Next]_vars
SpecCross == InitCross /\ [][Next]_vars
SpecCoerce == InitCoerce /\ [][Next]_vars
SpecEda == InitEda /\ [][EdaNext]_vars

(***************************************************************************)
(* Vocabulary of the properties.                                           *)
(***************************************************************************)
Rows == 1..Len(loaded.rows)

\* The value the file stored in a column of row i, as loaded.
Stored(i, c) == loaded.rows[i][c]

\* Two cells hold the same number.
NumEq(a, b) == a.kind = "num" /\ b.kind = "num" /\ a.num = b.num

\* The positions, in the fixed order, of the pollutant columns whose value
\* in row i equals the stored max.
Holders(i) ==
    {k \in 1..6 : NumEq(df.rows[i][PolutanOrder[k]], Stored(i, "max"))}

FirstHolder(i) == CHOOSE k \in Holders(i) : \A m \in Holders(i) : k <= m

LabelAt(k) ==
    CASE k = 1 -> "PM10" [] k = 2 -> "PM25" [] k = 3 -> "SO2"
      [] k = 4 -> "CO"   [] k = 5 -> "O3"   [] k = 6 -> "NO2"

StoredLabelIs(i, l) ==
    /\ Stored(i, "parameter_pencemar_kritis").kind = "str"
    /\ Stored(i, "parameter_pencemar_kritis").text = l

\* The numbers among the six pollutant fields of row i as loaded: a number,
\* or a text that reads as one; a missing or other field gives none.
PollutantNumbers(i) ==
    {n \in -1..3 : \E c \in Polutan :
        \/ Stored(i, c).kind = "num" /\ Stored(i, c).num = n
        \/ Stored(i, c).kind = "str" /\ IsNumText(Stored(i, c).text)
             /\ NumText[Stored(i, c).text] = n}

IsLargest(n, S) == n \in S /\ \A v \in S : v <= n

CriticalChecked == pc \in {"cleanup", "done"}
MaxChecked == pc \in {"critical_validation", "cleanup", "done"}

MaxDefect(i) ==
    /\ notna(Stored(i, "max"))
    /\ PollutantNumbers(i) # {}
    /\ ~ /\ Stored(i, "max").kind = "num"
         /\ IsLargest(Stored(i, "max").num, PollutantNumbers(i))

HasRecalc == pc \in {"max_validation", "critical_validation", "cleanup"}

OnlyMaxCase(i) ==
    /\ Holders(i) # {}
    /\ StoredLabelIs(i, LabelAt(FirstHolder(i)))
    /\ \E v \in PollutantNumbers(i) : v > Stored(i, "max").num

OnlyLabelCase(i) ==
    /\ Stored(i, "max").kind = "num"
    /\ IsLargest(Stored(i, "max").num, PollutantNumbers(i))
    /\ ~StoredLabelIs(i, LabelAt(FirstHolder(i)))

IdChecked ==
    /\ pc \notin {"load", "report", "special", "id"}
    /\ "id" \in csv.cols

RepeatedIdRows ==
    {i \in Rows : \E j \in Rows : j # i /\ Stored(j, "id") = Stored(i, "id")}

LaterIdRows ==
    {i \in Rows : \E j \in Rows : j < i /\ Stored(j, "id") = Stored(i, "id")}

CrossRequired == Polutan \cup {"max"}

CrossRead == CrossRequired \cup {"parameter_pencemar_kritis", "tanggal", "stasiun"}

CoercedFrom(c, n) ==
    \/ c.kind = "num" /\ n = c
    \/ c.kind = "str" /\ IsNumText(c.text) /\ n = Num(NumText[c.text])
    \/ c.kind = "str" /\ ~IsNumText(c.text) /\ n = NaN
    \/ c.kind = "nan" /\ n = NaN

Reported == pc \notin {"load", "report"}

RepeatedNames(name) ==
    {c \in ColumnNames : \E a, b \in DOMAIN dfs[name].columns :
        a # b /\ dfs[name].columns[a] = c /\ dfs[name].columns[b] = c}

Listed(l, c) == Cardinality({k \in DOMAIN l : l[k] = c})

RowsOf(name) == IF name \in DOMAIN dfs THEN dfs[name].n_rows ELSE 0

TotalRows == RowsOf("ispu") + RowsOf("__total__")

Counted == "count_rows_per_dataset" \in returned

(***************************************************************************)
(* C1: for every row whose stored max is non-null, the row is a            *)
(* critical-label mismatch exactly when no pollutant column equals the     *)
(* stored max or the stored label differs from the label of the FIRST      *)
(* pollutant column, in the fixed order, that equals it; on a tie a row    *)
(* labelled with a later holder is flagged, one labelled with the first    *)
(* holder is not.                                                          *)
(***************************************************************************)
C1_FirstHolderDecides ==
    CriticalChecked =>
        \A i \in Rows : notna(Stored(i, "max")) =>
            /\ i \in critical_mismatch <=>
                  \/ Holders(i) = {}
                  \/ ~StoredLabelIs(i, LabelAt(FirstHolder(i)))
            /\ \A k \in Holders(i) :
                  /\ k # FirstHolder(i) /\ StoredLabelIs(i, LabelAt(k))
                        => i \in critical_mismatch
                  /\ k = FirstHolder(i) /\ StoredLabelIs(i, LabelAt(k))
                        => i \notin critical_mismatch

\* A tie at the stored max whose row carries the later pollutant's label
\* has been flagged, and one with the earlier label has been passed.
C1_Witness ==
    /\ pc = "done"
    /\ \E i \in Rows :
          /\ Cardinality(Holders(i)) >= 2
          /\ \E k \in Holders(i) : k # FirstHolder(i) /\ StoredLabelIs(i, LabelAt(k))
          /\ i \in critical_mismatch
    /\ \E j \in Rows :
          /\ Cardinality(Holders(j)) >= 2
          /\ StoredLabelIs(j, LabelAt(FirstHolder(j)))
          /\ j \notin critical_mismatch

(***************************************************************************)
(* C2: a row is a max-mismatch if and only if its stored max is non-null,  *)
(* its recomputed maximum is non-null and the two are not equal; the       *)
(* reported count is the number of such rows: a lone row whose stored max  *)
(* exceeds every pollutant counts 1, one whose stored max is the largest   *)
(* pollutant counts 0.                                                     *)
(***************************************************************************)
C2_MaxMismatchCount ==
    MaxChecked =>
        /\ \A i \in Rows : i \in max_mismatch <=> MaxDefect(i)
        /\ Cardinality(max_mismatch) = Cardinality({i \in Rows : MaxDefect(i)})
        /\ Len(loaded.rows) = 1 /\ Stored(1, "max").kind = "num" =>
              /\ PollutantNumbers(1) # {}
                    /\ (\A v \in PollutantNumbers(1) : v < Stored(1, "max").num)
                    => Cardinality(max_mismatch) = 1
              /\ IsLargest(Stored(1, "max").num, PollutantNumbers(1))
                    => Cardinality(max_mismatch) = 0

\* A table of several rows, some of them max-mismatches and some not.
C2_Witness ==
    /\ pc = "done"
    /\ Cardinality(max_mismatch) >= 2
    /\ \E i \in Rows : notna(Stored(i, "max")) /\ i \notin max_mismatch

(***************************************************************************)
(* C3: the recomputed maximum of every row is the largest of the row's     *)
(* pollutant values after numeric coercion, a null or non-numeric entry    *)
(* being absent and never zero, and is null exactly when all six are null. *)
(***************************************************************************)
C3_RecalcMaxIsLargest ==
    HasRecalc =>
        \A i \in Rows :
            /\ isna(df.rows[i]["_recalc_max"]) <=> PollutantNumbers(i) = {}
            /\ isna(df.rows[i]["_recalc_max"]) <=>
                  \A c \in Polutan : isna(df.rows[i][c])
            /\ notna(df.rows[i]["_recalc_max"]) =>
                  /\ df.rows[i]["_recalc_max"].kind = "num"
                  /\ IsLargest(df.rows[i]["_recalc_max"].num, PollutantNumbers(i))

\* A row whose only numbers are negative, beside a missing and a
\* non-numeric field: its recomputed maximum is that negative number.
C3_Witness ==
    /\ pc = "cleanup"
    /\ \E i \in Rows :
          /\ PollutantNumbers(i) = {-1}
          /\ \E c \in Polutan : isna(Stored(i, c))
          /\ \E c \in Polutan : Stored(i, c).kind = "str"
          /\ df.rows[i]["_recalc_max"] = Num(-1)

(***************************************************************************)
(* C4: a row whose stored max is null is reported by neither check; and    *)
(* the checks are independent: a row whose stored max is a non-maximal     *)
(* pollutant whose label is stored is flagged by the max check only, a row *)
(* whose stored max is the recomputed maximum under a wrong label by the   *)
(* label check only.                                                       *)
(***************************************************************************)
C4_NullMaxPassesBoth ==
    CriticalChecked =>
        \A i \in Rows :
            /\ isna(Stored(i, "max")) =>
                  i \notin max_mismatch /\ i \notin critical_mismatch
            /\ notna(Stored(i, "max")) /\ OnlyMaxCase(i) =>
                  i \in max_mismatch /\ i \notin critical_mismatch
            /\ notna(Stored(i, "max")) /\ OnlyLabelCase(i) =>
                  i \notin max_mismatch /\ i \in critical_mismatch

\* One table holds a row without max whose label fits no pollutant, a row
\* flagged by the max check alone and a row flagged by the label check
\* alone.
C4_Witness ==
    /\ pc = "done"
    /\ \E i \in Rows :
          /\ isna(Stored(i, "max"))
          /\ PollutantNumbers(i) # {}
          /\ StoredLabelIs(i, "PM10")
          /\ ~NumEq(df.rows[i]["pm_sepuluh"], df.rows[i]["pm_duakomalima"])
    /\ max_mismatch \ critical_mismatch # {}
    /\ critical_mismatch \ max_mismatch # {}

(***************************************************************************)
(* C5, as stated: the reported duplicate count is the number of rows whose *)
(* id occurs more than once, every occurrence counted, which is the number *)
(* of rows the sample is drawn from. (Stated for tables without null ids.) *)
(***************************************************************************)
C5_CountsEveryOccurrence ==
    IdChecked /\ (\A i \in Rows : notna(Stored(i, "id"))) =>
        duplicate_ids = Cardinality(RepeatedIdRows)

(***************************************************************************)
(* C5, amended: the reported duplicate count is the number of rows whose   *)
(* id already occurred in an earlier row (every occurrence but the first;  *)
(* missing ids count as one value): the rows with a repeated id less one   *)
(* per repeated value. The sample is drawn from all rows with a repeated   *)
(* id, which are more than the count whenever there is a duplicate.        *)
(***************************************************************************)
C5_CountsLaterOccurrences ==
    IdChecked =>
        /\ duplicate_ids = Cardinality(LaterIdRows)
        /\ duplicate_ids = Cardinality(RepeatedIdRows)
                             - Cardinality({Stored(i, "id") : i \in RepeatedIdRows})
        /\ sample_ids \subseteq RepeatedIdRows
        /\ duplicate_ids > 0 =>
              /\ duplicate_ids < Cardinality(RepeatedIdRows)
              /\ Cardinality(RepeatedIdRows) <= 5 => sample_ids = RepeatedIdRows
        /\ duplicate_ids = 0 => RepeatedIdRows = {} /\ sample_ids = {}

\* The ids 1, 2, 2, 3: the count is 1 and the sample shows both rows of id 2.
C5_Witness ==
    /\ pc = "done"
    /\ Len(loaded.rows) = 4
    /\ Stored(1, "id") = Num(1) /\ Stored(2, "id") = Num(2)
    /\ Stored(3, "id") = Num(2) /\ Stored(4, "id") = Num(3)
    /\ duplicate_ids = 1
    /\ sample_ids = {2, 3}

(***************************************************************************)
(* C6, as stated: whatever expected columns are absent, the script runs to *)
(* completion and no check fails the run.                                  *)
(***************************************************************************)
C6_NeverFails == pc # "error"

(***************************************************************************)
(* C6, amended: whatever subset of period_data, categori, critical and id  *)
(* is absent, each check of an absent column is skipped and the script     *)
(* runs to completion. The cross-column validator is not guarded: the run  *)
(* stops there with a KeyError whenever a pollutant column or max is       *)
(* absent, and it can stop only when a pollutant column, max,              *)
(* parameter_pencemar_kritis, tanggal or stasiun is absent; the guarded    *)
(* checks before it have all been run or skipped by then.                  *)
(***************************************************************************)
C6_OnlyCrossValidatorFails ==
    /\ pc = "error" =>
          /\ error = "KeyError"
          /\ ~(CrossRead \subseteq csv.cols)
          /\ special = SpecialColumns \cap csv.cols
          /\ DOMAIN report = csv.cols
    /\ pc = "done" =>
          /\ error = ""
          /\ CrossRequired \subseteq csv.cols
          /\ special = SpecialColumns \cap csv.cols

\* A run to completion on a table that lacks period_data, categori,
\* critical and id, with a mismatch sample printed.
C6_Witness ==
    /\ pc = "done"
    /\ csv.cols = CrossRead
    /\ special = {"tanggal", "stasiun"}
    /\ printed # {}

(***************************************************************************)
(* C7, as stated: when the script ends the table has the columns and the   *)
(* cell values it had right after loading, and no _recalc_max.             *)
(***************************************************************************)
C7_TableAsLoaded == pc = "done" => df = loaded

(***************************************************************************)
(* C7, amended: when the script has run to completion the table has the    *)
(* columns it had right after loading, _recalc_max is absent (it is        *)
(* present only from its computation to the cleanup), and every cell       *)
(* outside the six pollutant columns has its loaded value; the pollutant   *)
(* columns are left coerced: a number is unchanged, a text that reads as a *)
(* number is that number, any other entry is null.                         *)
(***************************************************************************)
C7_OnlyPollutantsCoerced ==
    /\ "_recalc_max" \in df.cols <=> HasRecalc
    /\ pc = "done" =>
          /\ df.cols = loaded.cols
          /\ Len(df.rows) = Len(loaded.rows)
          /\ \A i \in Rows : \A c \in loaded.cols :
                IF c \in Polutan
                THEN CoercedFrom(Stored(i, c), df.rows[i][c])
                ELSE df.rows[i][c] = Stored(i, c)

\* A pollutant column loaded as text, with an entry that reads as a number
\* and one that does not: the first ends as the number, the second null.
C7_Witness ==
    /\ pc = "done"
    /\ \E c \in Polutan : \E i, j \in Rows :
          /\ Stored(i, c) = Str("x") /\ df.rows[i][c] = NaN
          /\ Stored(j, c) = Str("2") /\ df.rows[j][c] = Num(2)

(***************************************************************************)
(* C8, as stated: the reporter guards the division by the row count: a     *)
(* table without rows gets a null percentage of 0 for every column; a      *)
(* table with rows gets null_count / row_count x 100 (to two decimals),    *)
(* with null_count between 0 and the row count.                            *)
(***************************************************************************)
C8_ZeroRowsReportZero ==
    Reported =>
        \A c \in DOMAIN report :
            IF Len(loaded.rows) = 0
            THEN report[c].null_pct = Pct(0)
            ELSE /\ ~report[c].null_pct.nan
                 /\ report[c].null_count \in 0..Len(loaded.rows)
                 /\ LET h == report[c].null_pct.hundredths
                        n == Len(loaded.rows)
                    IN  /\ 2 * h * n <= 2 * report[c].null_count * 10000 + n
                        /\ 2 * h * n >= 2 * report[c].null_count * 10000 - n

(***************************************************************************)
(* C9: find_internal_duplicate_columns returns an entry for a dataset if   *)
(* and only if its column list holds some name more than once; the entry   *)
(* lists each repeated name exactly once and no name that occurs once; the *)
(* schema mapping it was given is not modified.                            *)
(***************************************************************************)
C9_RepeatedNamesOnce ==
    "find_internal_duplicate_columns" \in returned =>
        /\ DOMAIN duplicates = {name \in DOMAIN dfs : RepeatedNames(name) # {}}
        /\ \A name \in DOMAIN duplicates : \A c \in ColumnNames :
              Listed(duplicates[name], c) = IF c \in RepeatedNames(name) THEN 1 ELSE 0
        /\ DOMAIN schema_dict = DOMAIN dfs
        /\ \A name \in DOMAIN dfs :
              /\ schema_dict[name].columns = dfs[name].columns
              /\ schema_dict[name].n_columns = Len(dfs[name].columns)

\* A dataset with one name three times beside one with distinct names.
C9_Witness ==
    /\ "find_internal_duplicate_columns" \in returned
    /\ DOMAIN dfs = DatasetNames
    /\ dfs["ispu"].columns = <<"max", "max", "max">>
    /\ dfs["__total__"].columns = <<"tanggal", "max">>
    /\ DOMAIN duplicates = {"ispu"}
    /\ duplicates["ispu"] = <<"max">>

(***************************************************************************)
(* C10, as stated: count_rows_per_dataset returns each dataset's row count *)
(* under its name and the sum of all row counts under __total__, for every *)
(* choice of names, a dataset named __total__ included.                    *)
(***************************************************************************)
C10_EveryNameItsCount ==
    Counted =>
        /\ \A name \in DOMAIN dfs : summary[name] = dfs[name].n_rows
        /\ summary["__total__"] = TotalRows

(***************************************************************************)
(* C10, amended: count_rows_per_dataset returns, under each dataset name   *)
(* other than __total__, that dataset's row count, and under __total__ the *)
(* sum of the row counts of all datasets (a dataset named __total__        *)
(* included in the sum, its own count overwritten); for an empty mapping   *)
(* the result is only __total__ = 0.                                       *)
(***************************************************************************)
C10_TotalKeyHoldsSum ==
    Counted =>
        /\ DOMAIN summary = DOMAIN dfs \cup {"__total__"}
        /\ \A name \in DOMAIN dfs \ {"__total__"} : summary[name] = dfs[name].n_rows
        /\ summary["__total__"] = TotalRows
        /\ DOMAIN dfs = {} => summary = [name \in {"__total__"} |-> 0]

\* A dataset named __total__ with rows, beside another with rows: the key
\* holds the sum, not that dataset's count.
C10_Witness ==
    /\ Counted
    /\ DOMAIN dfs = DatasetNames
    /\ dfs["__total__"].n_rows = 2 /\ dfs["ispu"].n_rows = 1
    /\ summary["__total__"] = 3 /\ summary["ispu"] = 1

====
